---- MODULE Spec2Model ----
(***************************************************************************)
(* Model of gen_blocks.go, the generator that downloads the block          *)
(* catalogue and prints the Go source of package block: the block          *)
(* declarations, the ByID map literal and the StateID map literal.         *)
(* The generator is one sequential program (main); pc is its position.     *)
(***************************************************************************)
EXTENDS Integers, Sequences, FiniteSets, TLC

\* ---------------------------------------------------------------- bounds
\* Width of the unsigned integer type of ID, MinStateID and MaxStateID.
\* The program uses uint32; the model keeps the wrap-around at 2^UintBits.
UintBits == 2

\* Largest number of Block records in a downloaded catalogue.
MaxBlocks == 2

Pow2(n) == 2 ^ n

UintModulus == Pow2(UintBits)

MaxUint == UintModulus - 1

\* The inner loop of main never ends when it wraps; the model stops following
\* it after this many iterations for one Block (one full wrap and a bit).
MaxIters == UintModulus + 2

\* ------------------------------------------------------------ input sets
\* Values of the uint fields of a record: the two smallest and the largest.
IDVals == {0, MaxUint}

StateVals == {0, 1, MaxUint}

\* Values of Block.Name, as sequences of characters.
NameVals == { <<"a", "_", "b">>, <<"a", "B">>, <<"b">> }

\* type Block: the fields the generator's control flow and the two indices read.
BlockRecs == [ID : IDVals, Name : NameVals, MinStateID : StateVals, MaxStateID : StateVals]

Catalogues == UNION { [1..n -> BlockRecs] : n \in 0..MaxBlocks }

NoBlock == [ID |-> 0, Name |-> <<>>, MinStateID |-> 0, MaxStateID |-> 0]

\* --------------------------------------------------------- pure functions
IsLower(c) == c \in {"a", "b"}

IsUpper(c) == c \in {"A", "B"}

IsDelim(c) == c \in {"_", " ", "-", "."}

Upper(c) == IF c = "a" THEN "A" ELSE IF c = "b" THEN "B" ELSE c

\* strcase.ToCamel: upper-case letters are kept, a lower-case letter is
\* upper-cased when it is first or follows a delimiter, delimiters are dropped.
RECURSIVE CamelFrom(_, _, _)
CamelFrom(s, k, capNext) ==
    IF k > Len(s) THEN <<>>
    ELSE LET c == s[k]
             piece == IF IsUpper(c) THEN <<c>>
                      ELSE IF IsLower(c) THEN (IF capNext THEN <<Upper(c)>> ELSE <<c>>)
                      ELSE <<>>
         IN piece \o CamelFrom(s, k + 1, IsDelim(c))

ToCamel(s) == CamelFrom(s, 1, TRUE)

\* i++ on the unsigned loop counter.
IncUint(i) == (i + 1) % UintModulus

\* One line of standard output.
Line(kind, name, key, val, blk) ==
    [kind |-> kind, name |-> name, key |-> key, val |-> val, blk |-> blk]

HeaderLine == Line("header", <<>>, 0, 0, NoBlock)

\* makeBlockDeclaration + format.Node: one var spec per Block, named ToCamel(Name).
DeclLine(blk) == Line("decl", ToCamel(blk.Name), 0, 0, blk)

makeBlockDeclaration(bs) == [k \in 1..Len(bs) |-> DeclLine(bs[k])]

ByIDOpen == Line("byid{", <<>>, 0, 0, NoBlock)

\* fmt.Printf("  %d: &%s,\n", b.ID, strcase.ToCamel(b.Name))
ByIDLine(blk) == Line("byid", ToCamel(blk.Name), blk.ID, 0, NoBlock)

StateIDOpen == Line("state{", <<>>, 0, 0, NoBlock)

\* fmt.Printf("  %d: %d,\n", i, b.ID)
StateLine(i, blk) == Line("state", <<>>, i, blk.ID, NoBlock)

CloseLine == Line("}", <<>>, 0, 0, NoBlock)

VARIABLES pc, err, blocks, out, b, i, iters, bitsPerBlock

vars == <<pc, err, blocks, out, b, i, iters, bitsPerBlock>>

Init ==
    /\ pc = "start"
    /\ err = "nil"
    /\ blocks = <<>>
    /\ out = <<>>
    /\ b = 1
    /\ i = 0
    /\ iters = 0
    /\ bitsPerBlock = 0

\* downloadInfo returns the decoded catalogue.
DownloadOK ==
    /\ pc = "start"
    /\ \E data \in Catalogues : blocks' = data
    /\ pc' = "header"
    /\ UNCHANGED <<err, out, b, i, iters, bitsPerBlock>>

\* DownloadFail with the header printed before the error is looked at.
DownloadFailAfterHeader ==
    /\ pc = "start"
    /\ \E e \in {"fetch", "decode"} : err' = e
    /\ out' = Append(out, HeaderLine)
    /\ pc' = "exit1"
    /\ UNCHANGED <<blocks, b, i, iters, bitsPerBlock>>

\* downloadInfo returns an error (http.Get or the JSON decoder); main reports
\* it on standard error and exits with status 1.
DownloadFail ==
    /\ pc = "start"
    /\ \E e \in {"fetch", "decode"} : err' = e
    /\ pc' = "exit1"
    /\ UNCHANGED <<blocks, out, b, i, iters, bitsPerBlock>>

\* The package clause, BitsPerBlock and the type declarations.
EmitHeader ==
    /\ pc = "header"
    /\ out' = Append(out, HeaderLine)
    /\ pc' = "decl"
    /\ UNCHANGED <<err, blocks, b, i, iters, bitsPerBlock>>

\* format.Node of the declarations, then the opening of the ByID literal.
EmitDeclarations ==
    /\ pc = "decl"
    /\ out' = out \o makeBlockDeclaration(blocks) \o <<ByIDOpen>>
    /\ b' = 1
    /\ pc' = "byid"
    /\ UNCHANGED <<err, blocks, i, iters, bitsPerBlock>>

\* One iteration of the ByID loop.
EmitByID ==
    /\ pc = "byid"
    /\ b <= Len(blocks)
    /\ out' = Append(out, ByIDLine(blocks[b]))
    /\ b' = b + 1
    /\ UNCHANGED <<pc, err, blocks, i, iters, bitsPerBlock>>

\* End of the ByID loop: close the literal and open the StateID literal.
CloseByID ==
    /\ pc = "byid"
    /\ b > Len(blocks)
    /\ out' = out \o <<CloseLine, StateIDOpen>>
    /\ b' = 1
    /\ pc' = "stateid"
    /\ UNCHANGED <<err, blocks, i, iters, bitsPerBlock>>

\* if b.MinStateID == b.MaxStateID: one line, no loop.
ExpandSingle ==
    /\ pc = "stateid"
    /\ b <= Len(blocks)
    /\ blocks[b].MinStateID = blocks[b].MaxStateID
    /\ out' = Append(out, StateLine(blocks[b].MinStateID, blocks[b]))
    /\ b' = b + 1
    /\ iters' = 1
    /\ UNCHANGED <<pc, err, blocks, i, bitsPerBlock>>

\* else: i := b.MinStateID
LoopEnter ==
    /\ pc = "stateid"
    /\ b <= Len(blocks)
    /\ blocks[b].MinStateID # blocks[b].MaxStateID
    /\ i' = blocks[b].MinStateID
    /\ iters' = 0
    /\ pc' = "loop"
    /\ UNCHANGED <<err, blocks, out, b, bitsPerBlock>>

\* i <= b.MaxStateID: print the line, i++
LoopBody ==
    /\ pc = "loop"
    /\ i <= blocks[b].MaxStateID
    /\ iters < MaxIters
    /\ out' = Append(out, StateLine(i, blocks[b]))
    /\ i' = IncUint(i)
    /\ iters' = iters + 1
    /\ UNCHANGED <<pc, err, blocks, b, bitsPerBlock>>

\* i > b.MaxStateID: the loop ends, next Block.
LoopExit ==
    /\ pc = "loop"
    /\ i > blocks[b].MaxStateID
    /\ b' = b + 1
    /\ pc' = "stateid"
    /\ UNCHANGED <<err, blocks, out, i, iters, bitsPerBlock>>

\* End of the StateID loop: close the literal; main returns.
CloseStateID ==
    /\ pc = "stateid"
    /\ b > Len(blocks)
    /\ out' = Append(out, CloseLine)
    /\ pc' = "done"
    /\ UNCHANGED <<err, blocks, b, i, iters, bitsPerBlock>>

\* ------------------------------------------------- the emitted package
KindLines(kind) == SelectSeq(out, LAMBDA l : l.kind = kind)

DeclLines == KindLines("decl")

ByIDLines == KindLines("byid")

StateLines == KindLines("state")

StateKeys == { StateLines[k].key : k \in 1..Len(StateLines) }

\* A sequence in which two positions hold the same value of f.
HasRepeat(seq, f(_)) ==
    \E j, k \in 1..Len(seq) : j # k /\ f(seq[j]) = f(seq[k])

NameOf(l) == l.name

KeyOf(l) == l.key

\* The Go compiler accepts the printed file: no variable is declared twice and
\* no map literal repeats a constant key.
Compiles ==
    /\ ~HasRepeat(DeclLines, NameOf)
    /\ ~HasRepeat(ByIDLines, KeyOf)
    /\ ~HasRepeat(StateLines, KeyOf)

\* int(math.Ceil(math.Log2(float64(n)))) for n >= 1.
CeilLog2(n) == CHOOSE k \in 0..n : Pow2(k) >= n /\ \A j \in 0..(k - 1) : Pow2(j) < n

\* math.Log2(0) is -Inf and the conversion of -Inf to int is left to the
\* implementation by the language: the most negative int on the common
\* targets (here its stand-in at the model's width), or any other value.
OutOfRangeInt == {-UintModulus, 0}

\* Package initialisation of the printed file:
\* var BitsPerBlock = int(math.Ceil(math.Log2(float64(len(StateID)))))
InitBitsPerBlock ==
    /\ pc = "done"
    /\ Compiles
    /\ LET n == Cardinality(StateKeys)
       IN IF n >= 1
          THEN bitsPerBlock' = CeilLog2(n)
          ELSE \E v \in OutOfRangeInt : bitsPerBlock' = v
    /\ pc' = "loaded"
    /\ UNCHANGED <<err, blocks, out, b, i, iters>>

Next ==
    \/ DownloadOK
    \/ DownloadFail
    \/ EmitHeader
    \/ EmitDeclarations
    \/ EmitByID
    \/ CloseByID
    \/ ExpandSingle
    \/ LoopEnter
    \/ LoopBody
    \/ LoopExit
    \/ CloseStateID
    \/ InitBitsPerBlock

Spec == Init /\ [][Next]_vars

\* ------------------------------------------------------------ properties
\* main has returned normally (and the printed package may have been loaded).
Compiled == pc \in {"done", "loaded"}

Interval(blk) == blk.MinStateID .. blk.MaxStateID

Ordered(blk) == blk.MinStateID <= blk.MaxStateID

AllOrdered == \A k \in 1..Len(blocks) : Ordered(blocks[k])

HasOverlap ==
    \E j, k \in 1..Len(blocks) :
        j # k /\ Interval(blocks[j]) \cap Interval(blocks[k]) # {}

HasDuplicateID ==
    \E j, k \in 1..Len(blocks) : j # k /\ blocks[j].ID = blocks[k].ID

HasNameCollision ==
    \E j, k \in 1..Len(blocks) :
        j # k /\ ToCamel(blocks[j].Name) = ToCamel(blocks[k].Name)

\* The IDs the printed StateID literal associates with state ID s.
Resolve(s) == { StateLines[k].val : k \in { n \in 1..Len(StateLines) : StateLines[n].key = s } }

RECURSIVE SumWidths(_)
SumWidths(n) ==
    IF n = 0 THEN 0
    ELSE SumWidths(n - 1) + (blocks[n].MaxStateID - blocks[n].MinStateID + 1)

\* Iterating from MinStateID to MaxStateID inclusive, one association each.
GeneralLoop(blk) ==
    [n \in 1..(blk.MaxStateID - blk.MinStateID + 1) |-> StateLine(blk.MinStateID + n - 1, blk)]

RECURSIVE GeneralUpTo(_)
GeneralUpTo(n) ==
    IF n = 0 THEN <<>> ELSE GeneralUpTo(n - 1) \o GeneralLoop(blocks[n])

IsPrefix(s, t) == Len(s) <= Len(t) /\ SubSeq(t, 1, Len(s)) = s

Smaller(x, y) == IF x <= y THEN x ELSE y

WellFormed == AllOrdered /\ ~HasOverlap /\ ~HasDuplicateID /\ ~HasNameCollision

\* C1: in a compiled catalogue every state ID of a Block's interval resolves
\* through the printed StateID table to that Block's ID and to nothing else,
\* and a state ID outside every interval has no entry.
C1_RoundTrip ==
    Compiled =>
        /\ \A k \in 1..Len(blocks) :
              \A s \in Interval(blocks[k]) : Resolve(s) = {blocks[k].ID}
        /\ \A s \in 0..MaxUint :
              (\A k \in 1..Len(blocks) : s \notin Interval(blocks[k])) => Resolve(s) = {}

\* C2: a catalogue in which two Blocks own a common state ID is never
\* compiled, and no state ID is printed twice in the StateID table.
C2_OverlapRejected ==
    HasOverlap => ~Compiled /\ ~HasRepeat(StateLines, KeyOf)

\* C3: a catalogue holding a Block with MinStateID > MaxStateID is never
\* compiled.
C3_InvertedRejected ==
    Compiled => AllOrdered

\* C4: a compiled registry has at least one StateIndex entry, and its
\* BitsPerBlock is ceil(log2(|StateIndex|)).
C4_BitsPerBlock ==
    /\ Compiled => Cardinality(StateKeys) >= 1
    /\ pc = "loaded" => bitsPerBlock = CeilLog2(Cardinality(StateKeys))

\* C5: in a compiled registry the number of StateIndex keys is the sum of the
\* interval widths MaxStateID - MinStateID + 1, each key printed once.
C5_KeyCount ==
    Compiled =>
        /\ Cardinality(StateKeys) = SumWidths(Len(blocks))
        /\ Len(StateLines) = SumWidths(Len(blocks))

\* C6: a catalogue in which two records carry the same ID is never compiled,
\* and no ID is printed twice in the ByID table.
C6_DuplicateIDRejected ==
    HasDuplicateID => ~Compiled /\ ~HasRepeat(ByIDLines, KeyOf)

\* C7: a run that fails has written nothing to the output, and whatever is
\* written is written after the download has succeeded.
C7_NoPartialOutput ==
    /\ pc = "exit1" => out = <<>>
    /\ out # <<>> => pc \notin {"start", "exit1"} /\ err = "nil"

C7_Witness == pc = "exit1" /\ err = "decode" /\ out = <<>>

\* C8: the expansion loop of a Block with MinStateID <= MaxStateID ends after
\* at most MaxStateID - MinStateID + 1 iterations.
C8_LoopTerminates ==
    pc = "loop" /\ Ordered(blocks[b]) =>
        iters <= blocks[b].MaxStateID - blocks[b].MinStateID + 1

\* C9: a catalogue in which two Names fold to the same identifier is never
\* compiled, and every printed ByID entry refers to exactly one declaration.
C9_IdentifiersUnique ==
    /\ HasNameCollision => ~Compiled
    /\ \A k \in 1..Len(ByIDLines) :
          Cardinality({ n \in 1..Len(DeclLines) : DeclLines[n].name = ByIDLines[k].name }) = 1

\* C10: when every Block has MinStateID <= MaxStateID, the associations
\* printed are those of iterating each Block from MinStateID to MaxStateID
\* inclusive: a prefix of them while expanding, all of them once compiled; a
\* single-point Block contributes exactly one.
C10_SpecialCaseEquivalent ==
    AllOrdered /\ pc \in {"stateid", "loop", "done", "loaded"} =>
        /\ IsPrefix(StateLines, GeneralUpTo(Smaller(b, Len(blocks))))
        /\ Compiled => StateLines = GeneralUpTo(Len(blocks))

\* ------------------------------------------------- well-formed catalogues
\* No loop of the catalogue runs up to the largest unsigned value.
NoWrap ==
    \A k \in 1..Len(blocks) :
        blocks[k].MinStateID < blocks[k].MaxStateID => blocks[k].MaxStateID < MaxUint

\* The round trip holds of every compiled catalogue with disjoint intervals.
RoundTripIfDisjoint == ~HasOverlap => C1_RoundTrip

\* The key count holds of every compiled catalogue with ordered, disjoint
\* intervals.
KeyCountIfOrderedDisjoint == AllOrdered /\ ~HasOverlap => C5_KeyCount

\* Away from the largest unsigned value the loop ends and prints what the
\* general iteration prints.
EquivalenceIfNoWrap == NoWrap => C10_SpecialCaseEquivalent /\ C8_LoopTerminates

\* A well-formed catalogue whose loops end yields a file that compiles, with
\* BitsPerBlock = ceil(log2(|StateID|)).
CompilesIfWellFormed ==
    /\ WellFormed /\ pc = "done" => Compiles
    /\ pc = "loaded" /\ StateKeys # {} => bitsPerBlock = CeilLog2(Cardinality(StateKeys))
====
